---- MODULE Spec2Model ----
(***************************************************************************)
(* Recipe API (app/recipe): the recipe, tag and ingredient viewsets of     *)
(* views.py with the serializers of serializers.py, driven by HTTP         *)
(* requests.  The store is the three tables Recipe, Tag and Ingredient;    *)
(* `res` is the request last served together with its response.           *)
(***************************************************************************)
EXTENDS Integers, Sequences, FiniteSets, TLC

\* ------------------------------------------------------------------ bounds
\* Recipe, Tag and Ingredient rows ever created (ids are never reused).
MaxRecipes == 2
MaxTags == 3
MaxIngredients == 1

\* ------------------------------------------------------------- HTTP status
HTTP_200_OK == 200
HTTP_201_CREATED == 201
HTTP_204_NO_CONTENT == 204
HTTP_400_BAD_REQUEST == 400
HTTP_401_UNAUTHORIZED == 401
HTTP_404_NOT_FOUND == 404
HTTP_405_METHOD_NOT_ALLOWED == 405

\* ------------------------------------------------------------------ users
Users == {"A", "B"}
\* A request without a valid token (request.user is anonymous).
Anonymous == "anonymous"
Names == {"Indian", "Lunch"}

RecipeIds == 1..MaxRecipes
TagIds == 1..MaxTags
IngredientIds == 1..MaxIngredients

VARIABLES
    recipes,            \* Recipe table: id -> row (a function of the field names)
    nextRecipeId,       \* Recipe's id sequence
    tags,               \* Tag table: id -> [user, name]
    nextTagId,
    ingredients,        \* Ingredient table: id -> [user, name]
    nextIngredientId,
    res                 \* the request last served and its response

vars == <<recipes, nextRecipeId, tags, nextTagId, ingredients, nextIngredientId, res>>
store == <<recipes, nextRecipeId, tags, nextTagId, ingredients, nextIngredientId>>

\* --------------------------------------------------------------- helpers
Max(S) == CHOOSE x \in S : \A y \in S : y <= x
Min(S) == CHOOSE x \in S : \A y \in S : x <= y

\* The function f without the key k / restricted to the keys in S.
Restrict(f, S) == [k \in (DOMAIN f) \cap S |-> f[k]]
\* A row with the keys of vd overwritten (setattr(instance, attr, value)).
Overwrite(row, vd) == [k \in DOMAIN row |-> IF k \in DOMAIN vd THEN vd[k] ELSE row[k]]

\* order_by('-id'): the ids of S as a sequence, largest first.
RECURSIVE OrderByIdAsc(_)
OrderByIdAsc(S) == IF S = {} THEN <<>> ELSE <<Min(S)>> \o OrderByIdAsc(S \ {Min(S)})
RECURSIVE OrderByIdDesc(_)
OrderByIdDesc(S) == IF S = {} THEN <<>> ELSE <<Max(S)>> \o OrderByIdDesc(S \ {Max(S)})

\* ------------------------------------------------------------ serializers
\* RecipeSerializer.Meta / RecipeDetailSerializer.Meta
RecipeSerializerFields == {"id", "title", "time_minutes", "price", "link"}
RecipeDetailSerializerFields == RecipeSerializerFields \cup {"description"}
read_only_fields == {"id"}

\* The serializers with 'user' among their fields.
SerializerFieldsWithUser(serializer_class) ==
    IF serializer_class = "RecipeSerializer"
    THEN {"id", "title", "time_minutes", "price", "link", "user"}
    ELSE {"id", "title", "time_minutes", "price", "link", "user", "description"}

SerializerFields(serializer_class) ==
    IF serializer_class = "RecipeSerializer" THEN RecipeSerializerFields
    ELSE RecipeDetailSerializerFields

\* Model fields a payload must carry on create and full update; the other
\* scalar fields are optional and blank by default.
RequiredFields == {"title", "time_minutes", "price"}
BlankDefaults == [link |-> "", description |-> ""]

\* serializer.data: the projection of a row on the serializer's fields.
to_representation(serializer_class, id, row) ==
    [k \in SerializerFields(serializer_class) |-> IF k = "id" THEN id ELSE row[k]]

\* serializer.validated_data: the writable serializer fields of the payload;
\* every other key of the payload (user, tags, ingredients, ...) is dropped.
validated_data(serializer_class, payload) ==
    Restrict(payload, SerializerFields(serializer_class) \ read_only_fields)

\* serializer.is_valid(): a required field may be absent only when partial.
is_valid(serializer_class, payload, partial) ==
    partial \/ RequiredFields \subseteq DOMAIN validated_data(serializer_class, payload)

\* ---------------------------------------------------------------- routing
\* The actions each viewset serves (ModelViewSet; Update + List + Destroy mixins).
RecipeViewSetActions ==
    {"list", "create", "retrieve", "update", "partial_update", "destroy"}
BaseRecipeAttrViewSetActions == {"list", "update", "partial_update", "destroy"}

ViewSets == {"recipe", "tag", "ingredient"}
ViewSetActions(viewset) ==
    IF viewset = "recipe" THEN RecipeViewSetActions ELSE BaseRecipeAttrViewSetActions

CollectionActions == {"list", "create"}
DetailActions == {"retrieve", "update", "partial_update", "destroy"}
Operations == CollectionActions \cup DetailActions \cup {"upload_image"}

\* The router: /<prefix>/ and /<prefix>/{pk}/ exist when the viewset serves one
\* of their actions; /<prefix>/{pk}/upload-image/ exists only for a viewset
\* that defines the extra action.
UrlExists(viewset, op) ==
    IF op \in CollectionActions THEN ViewSetActions(viewset) \cap CollectionActions # {}
    ELSE IF op \in DetailActions THEN ViewSetActions(viewset) \cap DetailActions # {}
    ELSE op \in ViewSetActions(viewset)

\* permission_classes = [IsAuthenticated] behind TokenAuthentication
IsAuthenticated(u) == u \in Users

\* What a request meets before its handler runs: 0 when the handler runs.
Dispatch(viewset, op, u) ==
    IF ~UrlExists(viewset, op) THEN HTTP_404_NOT_FOUND
    ELSE IF ~IsAuthenticated(u) THEN HTTP_401_UNAUTHORIZED
    ELSE IF op \notin ViewSetActions(viewset) THEN HTTP_405_METHOD_NOT_ALLOWED
    ELSE 0

\* ---------------------------------------------------------- RecipeViewSet
\* get_queryset without the filter on the user.
get_queryset_unfiltered(u) == OrderByIdDesc(DOMAIN recipes)
\* get_queryset ordered by 'id' instead of '-id'.
get_queryset_ascending(u) ==
    OrderByIdAsc({id \in DOMAIN recipes : recipes[id]["user"] = u})

\* RecipeViewSet.get_queryset: the user's recipes, newest id first.
get_queryset(u) ==
    OrderByIdDesc({id \in DOMAIN recipes : recipes[id]["user"] = u})

Range(s) == {s[i] : i \in DOMAIN s}

\* get_serializer_class with the assignment made on the class: the serializer
\* a list chose is still in place for the request that follows it.
get_serializer_class_kept(action) ==
    IF action = "list" \/ (res.viewset = "recipe" /\ res.op = "list")
    THEN "RecipeSerializer" ELSE "RecipeDetailSerializer"

\* RecipeViewSet.get_serializer_class: the assignment to self.serializer_class
\* is made on the viewset instance, which is new for every request, so each
\* request starts from the class attribute RecipeDetailSerializer.
get_serializer_class(action) ==
    IF action = "list" THEN "RecipeSerializer" ELSE "RecipeDetailSerializer"

\* perform_create saving without the user: serializer.save()
perform_create_without_user(u, vd) ==
    Overwrite([user |-> Anonymous, title |-> "", time_minutes |-> 0, price |-> 0,
               link |-> "", description |-> "", image |-> "", tags |-> {},
               ingredients |-> {}], vd)

\* RecipeViewSet.perform_create: serializer.save(user=self.request.user)
perform_create(u, vd) ==
    Overwrite([user |-> u, title |-> "", time_minutes |-> 0, price |-> 0,
               link |-> BlankDefaults.link, description |-> BlankDefaults.description,
               image |-> "", tags |-> {}, ingredients |-> {}],
              [user |-> u] @@ vd)

\* An update that blanks the optional fields the payload leaves out.
perform_update_blanking(row, vd) ==
    [k \in DOMAIN row |-> IF k \in DOMAIN vd THEN vd[k]
                          ELSE IF k \in {"link", "description"} THEN "" ELSE row[k]]

\* serializer.save() of an update: the validated fields are set on the row.
perform_update(row, vd) == Overwrite(row, vd)

NoData == <<>>
Response(viewset, op, u, pk, payload, status, data) ==
    [viewset |-> viewset, op |-> op, user |-> u, pk |-> pk, payload |-> payload,
     status |-> status, data |-> data]

\* GET /recipes/?<params>
ListRecipes(u, params) ==
    LET d == Dispatch("recipe", "list", u)
        qs == get_queryset(u)
        sc == get_serializer_class("list")
    IN  /\ res' = IF d # 0 THEN Response("recipe", "list", u, 0, params, d, NoData)
                  ELSE Response("recipe", "list", u, 0, params, HTTP_200_OK,
                           [i \in DOMAIN qs |-> to_representation(sc, qs[i], recipes[qs[i]])])
        /\ UNCHANGED store

\* GET /recipes/{pk}/
RetrieveRecipe(u, pk) ==
    LET d == Dispatch("recipe", "retrieve", u)
        sc == get_serializer_class("retrieve")
    IN  /\ res' = IF d # 0 THEN Response("recipe", "retrieve", u, pk, <<>>, d, NoData)
                  ELSE IF pk \notin Range(get_queryset(u))
                  THEN Response("recipe", "retrieve", u, pk, <<>>, HTTP_404_NOT_FOUND, NoData)
                  ELSE Response("recipe", "retrieve", u, pk, <<>>, HTTP_200_OK,
                                to_representation(sc, pk, recipes[pk]))
        /\ UNCHANGED store

\* POST /recipes/
CreateRecipe(u, payload) ==
    LET d == Dispatch("recipe", "create", u)
        sc == get_serializer_class("create")
        id == nextRecipeId
        row == perform_create(u, validated_data(sc, payload))
    IN  /\ nextRecipeId <= MaxRecipes
        /\ IF d # 0
           THEN /\ res' = Response("recipe", "create", u, 0, payload, d, NoData)
                /\ UNCHANGED store
           ELSE IF ~is_valid(sc, payload, FALSE)
           THEN /\ res' = Response("recipe", "create", u, 0, payload,
                                   HTTP_400_BAD_REQUEST, NoData)
                /\ UNCHANGED store
           ELSE /\ recipes' = (id :> row) @@ recipes
                /\ nextRecipeId' = nextRecipeId + 1
                /\ res' = Response("recipe", "create", u, 0, payload, HTTP_201_CREATED,
                                   to_representation(sc, id, row))
                /\ UNCHANGED <<tags, nextTagId, ingredients, nextIngredientId>>

\* PUT (partial = FALSE) and PATCH (partial = TRUE) /recipes/{pk}/
UpdateRecipe(u, pk, payload, partial) ==
    LET op == IF partial THEN "partial_update" ELSE "update"
        d == Dispatch("recipe", op, u)
        sc == get_serializer_class(op)
        row == perform_update(recipes[pk], validated_data(sc, payload))
    IN  IF d # 0
        THEN /\ res' = Response("recipe", op, u, pk, payload, d, NoData)
             /\ UNCHANGED store
        ELSE IF pk \notin Range(get_queryset(u))
        THEN /\ res' = Response("recipe", op, u, pk, payload, HTTP_404_NOT_FOUND, NoData)
             /\ UNCHANGED store
        ELSE IF ~is_valid(sc, payload, partial)
        THEN /\ res' = Response("recipe", op, u, pk, payload, HTTP_400_BAD_REQUEST, NoData)
             /\ UNCHANGED store
        ELSE /\ recipes' = [recipes EXCEPT ![pk] = row]
             /\ res' = Response("recipe", op, u, pk, payload, HTTP_200_OK,
                                to_representation(sc, pk, row))
             /\ UNCHANGED <<nextRecipeId, tags, nextTagId, ingredients, nextIngredientId>>

\* A delete that takes the attached tags and ingredients with the recipe.
DestroyRecipeWithAttrs(u, pk) ==
    LET d == Dispatch("recipe", "destroy", u)
    IN  IF d # 0 \/ pk \notin Range(get_queryset(u))
        THEN /\ res' = Response("recipe", "destroy", u, pk, <<>>,
                                IF d # 0 THEN d ELSE HTTP_404_NOT_FOUND, NoData)
             /\ UNCHANGED store
        ELSE /\ recipes' = [id \in DOMAIN recipes \ {pk} |-> recipes[id]]
             /\ tags' = [t \in DOMAIN tags \ recipes[pk]["tags"] |-> tags[t]]
             /\ ingredients' = [t \in DOMAIN ingredients \ recipes[pk]["ingredients"]
                                   |-> ingredients[t]]
             /\ res' = Response("recipe", "destroy", u, pk, <<>>, HTTP_204_NO_CONTENT, NoData)
             /\ UNCHANGED <<nextRecipeId, nextTagId, nextIngredientId>>

\* DELETE /recipes/{pk}/
DestroyRecipe(u, pk) ==
    LET d == Dispatch("recipe", "destroy", u)
    IN  IF d # 0
        THEN /\ res' = Response("recipe", "destroy", u, pk, <<>>, d, NoData)
             /\ UNCHANGED store
        ELSE IF pk \notin Range(get_queryset(u))
        THEN /\ res' = Response("recipe", "destroy", u, pk, <<>>, HTTP_404_NOT_FOUND, NoData)
             /\ UNCHANGED store
        ELSE /\ recipes' = [id \in DOMAIN recipes \ {pk} |-> recipes[id]]
             /\ res' = Response("recipe", "destroy", u, pk, <<>>, HTTP_204_NO_CONTENT, NoData)
             /\ UNCHANGED <<nextRecipeId, tags, nextTagId, ingredients, nextIngredientId>>

\* POST /recipes/{pk}/upload-image/ : RecipeViewSet defines no such action, so
\* the request meets no route.
UploadImage(u, pk, file) ==
    LET d == Dispatch("recipe", "upload_image", u)
    IN  /\ d # 0
        /\ res' = Response("recipe", "upload_image", u, pk, [image |-> file], d, NoData)
        /\ UNCHANGED store

\* ------------------------------------------- TagViewSet / IngredientViewSet
\* TagViewSet.queryset / IngredientViewSet.queryset
Table(viewset) == IF viewset = "tag" THEN tags ELSE ingredients
\* The recipe field holding the association with the viewset's table.
Through(viewset) == IF viewset = "tag" THEN "tags" ELSE "ingredients"

\* Alphabetical position of a name (the database's collation).
NameRank == [Indian |-> 1, Lunch |-> 2]

IsPermutationOf(seq, S) ==
    /\ Range(seq) = S
    /\ Len(seq) = Cardinality(S)

\* get_queryset ordered by 'name' instead of '-name'.
attr_querysets_ascending(viewset, u) ==
    LET t == Table(viewset)
        own == {id \in DOMAIN t : t[id].user = u}
    IN  {seq \in UNION {[1..n -> own] : n \in {Cardinality(own)}} :
            /\ IsPermutationOf(seq, own)
            /\ \A i, j \in DOMAIN seq :
                  i < j => NameRank[t[seq[i]].name] <= NameRank[t[seq[j]].name]}

\* BaseRecipeAttrViewSet.get_queryset: the orders order_by('-name') may give
\* the user's rows (rows of equal name come in either order).
attr_querysets(viewset, u) ==
    LET t == Table(viewset)
        own == {id \in DOMAIN t : t[id].user = u}
    IN  {seq \in UNION {[1..n -> own] : n \in {Cardinality(own)}} :
            /\ IsPermutationOf(seq, own)
            /\ \A i, j \in DOMAIN seq :
                  i < j => NameRank[t[seq[i]].name] >= NameRank[t[seq[j]].name]}

attr_get_object(viewset, u, pk) ==
    pk \in DOMAIN Table(viewset) /\ Table(viewset)[pk].user = u

\* TagSerializer / IngredientSerializer: id (read only) and name.
AttrSerializerFields == {"id", "name"}
attr_representation(id, row) == [id |-> id, name |-> row.name]
attr_is_valid(payload, partial) == partial \/ "name" \in DOMAIN payload

\* GET /tags/ and /ingredients/
ListAttrs(viewset, u) ==
    LET d == Dispatch(viewset, "list", u)
        t == Table(viewset)
    IN  /\ IF d # 0 THEN res' = Response(viewset, "list", u, 0, <<>>, d, NoData)
           ELSE \E qs \in attr_querysets(viewset, u) :
                  res' = Response(viewset, "list", u, 0, <<>>, HTTP_200_OK,
                            [i \in DOMAIN qs |-> attr_representation(qs[i], t[qs[i]])])
        /\ UNCHANGED store

\* PUT / PATCH /tags/{pk}/ and /ingredients/{pk}/
UpdateAttr(viewset, u, pk, payload, partial) ==
    LET op == IF partial THEN "partial_update" ELSE "update"
        d == Dispatch(viewset, op, u)
        t == Table(viewset)
        row == Overwrite(t[pk], Restrict(payload, AttrSerializerFields \ read_only_fields))
    IN  IF d # 0
        THEN /\ res' = Response(viewset, op, u, pk, payload, d, NoData)
             /\ UNCHANGED store
        ELSE IF ~attr_get_object(viewset, u, pk)
        THEN /\ res' = Response(viewset, op, u, pk, payload, HTTP_404_NOT_FOUND, NoData)
             /\ UNCHANGED store
        ELSE IF ~attr_is_valid(payload, partial)
        THEN /\ res' = Response(viewset, op, u, pk, payload, HTTP_400_BAD_REQUEST, NoData)
             /\ UNCHANGED store
        ELSE /\ IF viewset = "tag"
                THEN tags' = [tags EXCEPT ![pk] = row] /\ UNCHANGED ingredients
                ELSE ingredients' = [ingredients EXCEPT ![pk] = row] /\ UNCHANGED tags
             /\ res' = Response(viewset, op, u, pk, payload, HTTP_200_OK,
                                attr_representation(pk, row))
             /\ UNCHANGED <<recipes, nextRecipeId, nextTagId, nextIngredientId>>

\* DELETE /tags/{pk}/ and /ingredients/{pk}/: the row goes, and with it its
\* rows of the association table.
DestroyAttr(viewset, u, pk) ==
    LET d == Dispatch(viewset, "destroy", u)
        t == Table(viewset)
    IN  IF d # 0
        THEN /\ res' = Response(viewset, "destroy", u, pk, <<>>, d, NoData)
             /\ UNCHANGED store
        ELSE IF ~attr_get_object(viewset, u, pk)
        THEN /\ res' = Response(viewset, "destroy", u, pk, <<>>, HTTP_404_NOT_FOUND, NoData)
             /\ UNCHANGED store
        ELSE /\ IF viewset = "tag"
                THEN /\ tags' = [id \in DOMAIN tags \ {pk} |-> tags[id]]
                     /\ UNCHANGED ingredients
                ELSE /\ ingredients' = [id \in DOMAIN ingredients \ {pk} |-> ingredients[id]]
                     /\ UNCHANGED tags
             /\ recipes' = [id \in DOMAIN recipes |->
                              [recipes[id] EXCEPT ![Through(viewset)] = @ \ {pk}]]
             /\ res' = Response(viewset, "destroy", u, pk, <<>>, HTTP_204_NO_CONTENT, NoData)
             /\ UNCHANGED <<nextRecipeId, nextTagId, nextIngredientId>>

\* A request for an action the viewset does not define (POST /tags/,
\* GET /tags/{pk}/, .../upload-image/): it ends in routing or dispatch.
Unserved(viewset, op, u, pk) ==
    /\ op \notin ViewSetActions(viewset)
    /\ res' = Response(viewset, op, u, pk, <<>>, Dispatch(viewset, op, u), NoData)
    /\ UNCHANGED store

\* ----------------------------------------------------------------- fixtures
\* No request served since the rows were last written directly.
NoResponse == Response("none", "none", Anonymous, 0, <<>>, 0, NoData)

\* The rows the fixtures create in an empty table, Tag.objects.create(user=...,
\* name=...) and Ingredient.objects.create(...) in turn: no name twice for
\* one user, the same name for both users.
FixtureUser(id) == IF id % 2 = 0 THEN "B" ELSE "A"
FixtureName(id) == IF ((id - 1) \div 2) % 2 = 0 THEN "Indian" ELSE "Lunch"
FixtureRows(n) == [id \in 1..n |-> [user |-> FixtureUser(id), name |-> FixtureName(id)]]

CreateAttrs ==
    /\ nextTagId = 1
    /\ nextIngredientId = 1
    /\ tags' = FixtureRows(MaxTags)
    /\ nextTagId' = MaxTags + 1
    /\ ingredients' = FixtureRows(MaxIngredients)
    /\ nextIngredientId' = MaxIngredients + 1
    /\ res' = NoResponse
    /\ UNCHANGED <<recipes, nextRecipeId>>

\* recipe.tags.add(tag) / recipe.ingredients.add(ingredient): the fixtures
\* attach rows of the first user to that user's recipes.
AddAttr(viewset, id, attr) ==
    /\ id \in DOMAIN recipes
    /\ attr \in DOMAIN Table(viewset)
    /\ recipes[id]["user"] = FixtureUser(1)
    /\ Table(viewset)[attr].user = recipes[id]["user"]
    /\ attr \notin recipes[id][Through(viewset)]
    /\ recipes' = [recipes EXCEPT ![id][Through(viewset)] = @ \cup {attr}]
    /\ res' = NoResponse
    /\ UNCHANGED <<nextRecipeId, tags, nextTagId, ingredients, nextIngredientId>>

\* ------------------------------------------------------------------ inputs
Payload1 == [title |-> "Sample recipe title", time_minutes |-> 22, price |-> 525,
             link |-> "http://example.com/recipe.pdf", description |-> "Sample Description"]
Payload2 == [title |-> "Updated Recipe Title", time_minutes |-> 40, price |-> 1530,
             link |-> "https://example.com/updated_recipe.pdf",
             description |-> "Updated description"]
PayloadMin == [title |-> "Sample recipe title", time_minutes |-> 22, price |-> 525]
PayloadNoTitle == [time_minutes |-> 22, price |-> 525]

\* Inline tags and ingredients: [{name: ...}, ...] as the sequence of the names.
WithTags(names, payload) == [tags |-> names] @@ payload
WithIngredients(names, payload) == [ingredients |-> names] @@ payload

CreatePayloads ==
    {PayloadMin, PayloadNoTitle} \cup {[user |-> u] @@ PayloadMin : u \in Users}
PutPayloads == {Payload2, PayloadNoTitle} \cup {[user |-> u] @@ Payload2 : u \in Users}
PatchPayloads ==
    {[title |-> "Updated Recipe Title"],
     [link |-> "https://example.com/updated_recipe.pdf"]}
        \cup {[user |-> u] : u \in Users}

AttrCreatePayloads ==
    {Payload1, WithTags(<<"Indian", "Lunch">>, WithIngredients(<<"Indian">>, Payload1))}
AttrPatchPayloads ==
    {[title |-> "Updated Recipe Title"],
     [tags |-> <<>>], [tags |-> <<"Lunch">>], [ingredients |-> <<>>]}
\* ?tags=1,3  ?ingredients=1
AttrListParams == {[tags |-> <<1, 3>>], [ingredients |-> <<1>>]}
AttrNamePayloads == {[name |-> n] : n \in Names}

Requesters == Users \cup {Anonymous}
Files == {"image.jpg", "notanimagefile"}

Init ==
    /\ recipes = <<>>
    /\ nextRecipeId = 1
    /\ tags = <<>>
    /\ nextTagId = 1
    /\ ingredients = <<>>
    /\ nextIngredientId = 1
    /\ res = NoResponse

\* The recipe endpoints, by the two users.
RecipeRequests ==
    \/ \E u \in Users : ListRecipes(u, <<>>)
    \/ \E u \in Users, pk \in RecipeIds : RetrieveRecipe(u, pk)
    \/ \E u \in Users, p \in CreatePayloads : CreateRecipe(u, p)
    \/ \E u \in Users, pk \in RecipeIds, p \in PutPayloads : UpdateRecipe(u, pk, p, FALSE)
    \/ \E u \in Users, pk \in RecipeIds, p \in PatchPayloads : UpdateRecipe(u, pk, p, TRUE)
    \/ \E u \in Users, pk \in RecipeIds : DestroyRecipe(u, pk)
    \/ \E u \in Users, pk \in RecipeIds, f \in Files : UploadImage(u, pk, f)

\* Every endpoint, without a token.
AnonymousRequests ==
    \/ ListRecipes(Anonymous, <<>>)
    \/ \E pk \in RecipeIds : RetrieveRecipe(Anonymous, pk)
    \/ CreateRecipe(Anonymous, PayloadMin)
    \/ \E pk \in RecipeIds : UpdateRecipe(Anonymous, pk, Payload2, FALSE)
    \/ \E pk \in RecipeIds : UpdateRecipe(Anonymous, pk, [title |-> "Updated Recipe Title"], TRUE)
    \/ \E pk \in RecipeIds : DestroyRecipe(Anonymous, pk)
    \/ \E pk \in RecipeIds : UploadImage(Anonymous, pk, "image.jpg")
    \/ \E vs \in {"tag", "ingredient"} :
          \/ ListAttrs(vs, Anonymous)
          \/ UpdateAttr(vs, Anonymous, 1, [name |-> "Lunch"], FALSE)
          \/ UpdateAttr(vs, Anonymous, 1, [name |-> "Lunch"], TRUE)
          \/ DestroyAttr(vs, Anonymous, 1)
          \/ \E op \in {"create", "retrieve", "upload_image"} : Unserved(vs, op, Anonymous, 1)

Next == RecipeRequests \/ AnonymousRequests

Spec == Init /\ [][Next]_vars

\* The recipe endpoints over recipes that carry tags and ingredients.
AttrRecipeRequests ==
    \/ \E u \in Users, q \in AttrListParams : ListRecipes(u, q)
    \/ \E u \in Users, pk \in RecipeIds : RetrieveRecipe(u, pk)
    \/ \E u \in Users, p \in AttrCreatePayloads : CreateRecipe(u, p)
    \/ \E u \in Users, pk \in RecipeIds, p \in AttrPatchPayloads : UpdateRecipe(u, pk, p, TRUE)
    \/ \E u \in Users, pk \in RecipeIds : DestroyRecipe(u, pk)

Fixtures ==
    \/ CreateAttrs
    \/ \E vs \in {"tag", "ingredient"}, id \in RecipeIds, a \in TagIds \cup IngredientIds :
          AddAttr(vs, id, a)

NextAttr == AttrRecipeRequests \/ Fixtures

SpecAttr == Init /\ [][NextAttr]_vars

\* The ids a request to /tags/{pk}/ or /ingredients/{pk}/ names.
AttrIds(viewset) == IF viewset = "tag" THEN TagIds ELSE IngredientIds
AttrViewSets == {"tag", "ingredient"}

\* The tag and ingredient endpoints, by the two users.
AttrRequests ==
    \/ \E vs \in AttrViewSets, u \in Users : ListAttrs(vs, u)
    \/ \E vs \in AttrViewSets, u \in Users : \E pk \in AttrIds(vs),
          p \in AttrNamePayloads \cup {<<>>} : UpdateAttr(vs, u, pk, p, FALSE)
    \/ \E vs \in AttrViewSets, u \in Users : \E pk \in AttrIds(vs),
          p \in AttrNamePayloads \cup {<<>>} : UpdateAttr(vs, u, pk, p, TRUE)
    \/ \E vs \in AttrViewSets, u \in Users : \E pk \in AttrIds(vs) : DestroyAttr(vs, u, pk)
    \/ \E vs \in AttrViewSets, u \in Users : \E pk \in AttrIds(vs),
          op \in {"create", "retrieve", "upload_image"} : Unserved(vs, op, u, pk)

NextTags == AttrRequests \/ CreateAttrs

SpecTags == Init /\ [][NextTags]_vars

\* Payloads that name the second user as owner and a tag name both users have.
LinkCreatePayloads == {WithTags(<<"Indian">>, [user |-> FixtureUser(2)] @@ PayloadMin)}
LinkPatchPayloads == {[user |-> FixtureUser(2), tags |-> <<"Indian">>]}
LinkAttrPayloads == {[user |-> FixtureUser(2), name |-> "Lunch"]}
\* The first row of each table, the one the fixtures attach.
LinkAttrIds == {1}

\* The requests that write recipes, tags and ingredients.
LinkRequests ==
    \/ \E u \in Users, p \in LinkCreatePayloads : CreateRecipe(u, p)
    \/ \E u \in Users, pk \in RecipeIds, p \in LinkPatchPayloads : UpdateRecipe(u, pk, p, TRUE)
    \/ \E u \in Users, pk \in RecipeIds : DestroyRecipe(u, pk)
    \/ \E vs \in AttrViewSets, u \in Users, pk \in LinkAttrIds, p \in LinkAttrPayloads :
          UpdateAttr(vs, u, pk, p, TRUE)
    \/ \E vs \in AttrViewSets, u \in Users, pk \in LinkAttrIds : DestroyAttr(vs, u, pk)

LinkFixtures ==
    \/ CreateAttrs
    \/ \E vs \in AttrViewSets, id \in RecipeIds, a \in LinkAttrIds : AddAttr(vs, id, a)

NextLinks == LinkRequests \/ LinkFixtures

SpecLinks == Init /\ [][NextLinks]_vars

\* ================================================================= claims
ScalarFields == {"title", "time_minutes", "price", "link", "description"}
\* The recipes of user u in the store.
Owned(u) == {id \in DOMAIN recipes : recipes[id]["user"] = u}
Served(viewset, ops) == res.viewset = viewset /\ res.op \in ops
ServedNext(viewset, ops) == res'.viewset = viewset /\ res'.op \in ops
DataIds(data) == {data[i]["id"] : i \in DOMAIN data}

C2_ListIsOwnRecipesNewestFirst ==
    (Served("recipe", {"list"}) /\ res.user \in Users /\ DOMAIN res.payload = {}) =>
        /\ res.status = HTTP_200_OK
        /\ DataIds(res.data) = Owned(res.user)
        /\ Len(res.data) = Cardinality(Owned(res.user))
        /\ \A i, j \in DOMAIN res.data : i < j => res.data[i]["id"] > res.data[j]["id"]

\* A list of two recipes was served.
C2_Witness ==
    /\ Served("recipe", {"list"})
    /\ res.status = HTTP_200_OK
    /\ Len(res.data) = 2

\* C3: a create by an authenticated user with the required fields answers 201
\* and adds exactly one recipe, whose scalar fields are the payload's and whose
\* owner is the caller whatever user the payload names; the other recipes stay.
C3_CreateOwnedByCaller ==
    [][ (ServedNext("recipe", {"create"}) /\ res'.user \in Users
            /\ RequiredFields \subseteq DOMAIN res'.payload) =>
          /\ res'.status = HTTP_201_CREATED
          /\ \E id \in DOMAIN recipes' \ DOMAIN recipes :
                /\ DOMAIN recipes' = DOMAIN recipes \cup {id}
                /\ res'.data["id"] = id
                /\ recipes'[id]["user"] = res'.user
                /\ \A k \in ScalarFields \cap DOMAIN res'.payload :
                      recipes'[id][k] = res'.payload[k]
          /\ \A id \in DOMAIN recipes : recipes'[id] = recipes[id]
      ]_vars

\* A create whose payload names the other user was answered 201.
C3_Witness ==
    /\ Served("recipe", {"create"})
    /\ res.status = HTTP_201_CREATED
    /\ "user" \in DOMAIN res.payload
    /\ res.payload["user"] # res.user
    /\ recipes[res.data["id"]]["user"] = res.user

C5_AnonymousIs401 ==
    [][ (res'.viewset \in ViewSets /\ res'.user = Anonymous) =>
          /\ res'.status = HTTP_401_UNAUTHORIZED
          /\ store' = store
      ]_vars

\* The rows of a table that user u owns under one of the names.
RowsNamed(table, u, names) ==
    {t \in DOMAIN table : table[t].user = u /\ table[t].name \in names}
\* The names the payload lists that user u has no row for yet.
NewNames(table, u, names) == {n \in names : RowsNamed(table, u, {n}) = {}}
\* A create, update or partial update that was served with success.
SavedNext ==
    /\ ServedNext("recipe", {"create", "update", "partial_update"})
    /\ res'.status \in {HTTP_200_OK, HTTP_201_CREATED}

\* C6: after a recipe create or update by user U whose payload names tags
\* (ingredients), each name has exactly one row owned by U, a row is added
\* only for a name U had no row for, and the recipe's tags (ingredients) are
\* exactly U's rows of the payload's names.
C6_InlineNamesResolvedPerOwner ==
    [][ SavedNext =>
          LET u == res'.user
              id == res'.data["id"]
          IN  /\ "tags" \in DOMAIN res'.payload =>
                    LET names == Range(res'.payload["tags"])
                    IN  /\ \A n \in names : Cardinality(RowsNamed(tags', u, {n})) = 1
                        /\ Cardinality(DOMAIN tags') = Cardinality(DOMAIN tags)
                               + Cardinality(NewNames(tags, u, names))
                        /\ recipes'[id]["tags"] = RowsNamed(tags', u, names)
              /\ "ingredients" \in DOMAIN res'.payload =>
                    LET names == Range(res'.payload["ingredients"])
                    IN  /\ \A n \in names : Cardinality(RowsNamed(ingredients', u, {n})) = 1
                        /\ Cardinality(DOMAIN ingredients') = Cardinality(DOMAIN ingredients)
                               + Cardinality(NewNames(ingredients, u, names))
                        /\ recipes'[id]["ingredients"] = RowsNamed(ingredients', u, names)
      ]_vars

\* C7: after an update or partial update of an owned recipe whose payload
\* lists tags (ingredients), the recipe is associated with exactly the listed
\* names, with none when the list is empty, and the rows that were attached
\* before are still in the store.
C7_UpdateReplacesAssociations ==
    [][ (SavedNext /\ res'.op # "create") =>
          /\ "tags" \in DOMAIN res'.payload =>
                /\ {tags'[t].name : t \in recipes'[res'.pk]["tags"]}
                       = Range(res'.payload["tags"])
                /\ recipes[res'.pk]["tags"] \subseteq DOMAIN tags'
          /\ "ingredients" \in DOMAIN res'.payload =>
                /\ {ingredients'[t].name : t \in recipes'[res'.pk]["ingredients"]}
                       = Range(res'.payload["ingredients"])
                /\ recipes[res'.pk]["ingredients"] \subseteq DOMAIN ingredients'
      ]_vars

\* C8: a served partial update of an owned recipe leaves every field of the
\* recipe whose key the payload lacks as it was, scalar fields, owner, image
\* and the tag and ingredient associations alike, and leaves every other row
\* of the store as it was.
C8_PatchTouchesOnlyPayloadKeys ==
    [][ (ServedNext("recipe", {"partial_update"}) /\ res'.status = HTTP_200_OK) =>
          /\ res'.pk \in Owned(res'.user)
          /\ DOMAIN recipes' = DOMAIN recipes
          /\ \A k \in DOMAIN recipes[res'.pk] \ DOMAIN res'.payload :
                recipes'[res'.pk][k] = recipes[res'.pk][k]
          /\ \A id \in DOMAIN recipes \ {res'.pk} : recipes'[id] = recipes[id]
          /\ <<tags, ingredients>>' = <<tags, ingredients>>
      ]_vars

\* A patch of the title alone was served on a recipe that carries a tag and
\* an ingredient and keeps the link and description it was created with.
C8_Witness ==
    /\ Served("recipe", {"partial_update"})
    /\ res.status = HTTP_200_OK
    /\ DOMAIN res.payload = {"title"}
    /\ recipes[res.pk]["title"] = res.payload["title"]
    /\ recipes[res.pk]["title"] # Payload1.title
    /\ recipes[res.pk]["link"] = Payload1.link
    /\ recipes[res.pk]["description"] = Payload1.description
    /\ recipes[res.pk]["tags"] # {}
    /\ recipes[res.pk]["ingredients"] # {}

\* C9: a list called with ?tags=ids (?ingredients=ids) returns exactly the
\* caller's recipes that have at least one tag (ingredient) among the ids.
C9_ListFilteredByIds ==
    (Served("recipe", {"list"}) /\ res.user \in Users /\ res.status = HTTP_200_OK) =>
        /\ "tags" \in DOMAIN res.payload =>
              DataIds(res.data) =
                  {id \in Owned(res.user) :
                      recipes[id]["tags"] \cap Range(res.payload["tags"]) # {}}
        /\ "ingredients" \in DOMAIN res.payload =>
              DataIds(res.data) =
                  {id \in Owned(res.user) :
                      recipes[id]["ingredients"] \cap Range(res.payload["ingredients"]) # {}}

\* C10: an upload-image call on an owned recipe with a payload that is no
\* image answers 400 and leaves the store, the recipe's image included,
\* unchanged.
C10_UploadOfNoImageIs400 ==
    [][ (ServedNext("recipe", {"upload_image"}) /\ res'.pk \in Owned(res'.user)
            /\ res'.payload["image"] = "notanimagefile") =>
          /\ res'.status = HTTP_400_BAD_REQUEST
          /\ store' = store
      ]_vars

\* C11: an upload-image call on a recipe the caller owns with a valid image
\* answers 201 with an image field in the response, and the recipe's image is
\* set afterwards.
C11_UploadOfImageIs201 ==
    [][ (ServedNext("recipe", {"upload_image"}) /\ res'.pk \in Owned(res'.user)
            /\ res'.payload["image"] = "image.jpg") =>
          /\ res'.status = HTTP_201_CREATED
          /\ "image" \in DOMAIN res'.data
          /\ recipes'[res'.pk]["image"] # ""
      ]_vars

\* C12: a delete of a recipe by its owner answers 204 and removes that recipe
\* with its associations and nothing else: every other recipe and every tag
\* and ingredient row, attached to it or not, stays; the id is never seen
\* again, so a later retrieve of it answers 404 and no list contains it.
C12_DeleteRemovesOnlyTheRecipe ==
    [][ /\ (ServedNext("recipe", {"destroy"}) /\ res'.pk \in Owned(res'.user)) =>
              /\ res'.status = HTTP_204_NO_CONTENT
              /\ DOMAIN recipes' = DOMAIN recipes \ {res'.pk}
              /\ \A id \in DOMAIN recipes' : recipes'[id] = recipes[id]
              /\ <<tags, ingredients>>' = <<tags, ingredients>>
        /\ \A id \in (1..(nextRecipeId - 1)) \ DOMAIN recipes : id \notin DOMAIN recipes'
        /\ (ServedNext("recipe", {"retrieve"}) /\ res'.user \in Users
               /\ res'.pk \notin DOMAIN recipes) => res'.status = HTTP_404_NOT_FOUND
        /\ (ServedNext("recipe", {"list"}) /\ res'.user \in Users) =>
              DataIds(res'.data) \subseteq DOMAIN recipes
      ]_vars

\* A recipe was deleted while the tag and ingredient rows of its owner exist
\* and another recipe of that owner still carries a tag and an ingredient.
C12_Witness ==
    /\ Served("recipe", {"destroy"})
    /\ res.status = HTTP_204_NO_CONTENT
    /\ res.pk \notin DOMAIN recipes
    /\ \E t \in DOMAIN tags : tags[t].user = res.user
    /\ \E t \in DOMAIN ingredients : ingredients[t].user = res.user
    /\ \E id \in Owned(res.user) :
          recipes[id]["tags"] # {} /\ recipes[id]["ingredients"] # {}

\* C14: a list answers with the summary fields for every item and a served
\* retrieve, create, update or partial update answers with the detail fields
\* (the summary fields and description), each with the row's values, whatever
\* request came before it, a list included.
C14_RepresentationPerOperation ==
    [][ (res'.viewset = "recipe" /\ res'.user \in Users
            /\ res'.status \in {HTTP_200_OK, HTTP_201_CREATED}) =>
          /\ res'.op = "list" =>
                \A i \in DOMAIN res'.data :
                    /\ DOMAIN res'.data[i] = {"id", "title", "time_minutes", "price", "link"}
                    /\ \A k \in DOMAIN res'.data[i] \ {"id"} :
                          res'.data[i][k] = recipes'[res'.data[i]["id"]][k]
          /\ res'.op \in {"retrieve", "create", "update", "partial_update"} =>
                /\ DOMAIN res'.data =
                       {"id", "title", "time_minutes", "price", "link", "description"}
                /\ \A k \in DOMAIN res'.data \ {"id"} :
                      res'.data[k] = recipes'[res'.data["id"]][k]
      ]_vars

\* A retrieve was answered with the detail fields of a recipe whose
\* description is not blank.
C14_Witness ==
    /\ Served("recipe", {"retrieve"})
    /\ res.status = HTTP_200_OK
    /\ "description" \in DOMAIN res.data
    /\ res.data["description"] # ""
    /\ res.data["description"] = recipes[res.pk]["description"]

\* C13: the tag and ingredient endpoints serve list, update and delete and
\* nothing else (a create, like a retrieve, is refused and writes nothing); a
\* list by user U answers 200 with exactly U's rows, each once, in descending
\* order of name; update, partial update and delete addressed to a row of
\* another user answer 404 and leave the store unchanged, while on U's own row
\* a valid update renames it and a delete removes it.
C13_AttrEndpoints ==
    [][ (res'.viewset \in AttrViewSets /\ res'.user \in Users) =>
          LET t == Table(res'.viewset)
              t2 == IF res'.viewset = "tag" THEN tags' ELSE ingredients'
              own == {id \in DOMAIN t : t[id].user = res'.user}
          IN  /\ res'.op \notin {"list", "update", "partial_update", "destroy"} =>
                    /\ res'.status \in {HTTP_404_NOT_FOUND, HTTP_405_METHOD_NOT_ALLOWED}
                    /\ store' = store
              /\ res'.op = "list" =>
                    /\ res'.status = HTTP_200_OK
                    /\ DataIds(res'.data) = own
                    /\ Len(res'.data) = Cardinality(own)
                    /\ \A i \in DOMAIN res'.data :
                          res'.data[i]["name"] = t[res'.data[i]["id"]].name
                    /\ \A i, j \in DOMAIN res'.data :
                          i < j => NameRank[res'.data[i]["name"]]
                                      >= NameRank[res'.data[j]["name"]]
                    /\ store' = store
              /\ (res'.op \in {"update", "partial_update", "destroy"}
                     /\ res'.pk \notin own) =>
                    /\ res'.status = HTTP_404_NOT_FOUND
                    /\ store' = store
              /\ (res'.op \in {"update", "partial_update"} /\ res'.pk \in own
                     /\ "name" \in DOMAIN res'.payload) =>
                    /\ res'.status = HTTP_200_OK
                    /\ t2 = [t EXCEPT ![res'.pk].name = res'.payload["name"]]
              /\ (res'.op = "destroy" /\ res'.pk \in own) =>
                    /\ res'.status = HTTP_204_NO_CONTENT
                    /\ t2 = [id \in DOMAIN t \ {res'.pk} |-> t[id]]
      ]_vars

\* A list of tags answered two rows of different names while the other user
\* has a tag too.
C13_Witness ==
    /\ Served("tag", {"list"})
    /\ res.status = HTTP_200_OK
    /\ Len(res.data) = 2
    /\ res.data[1]["name"] # res.data[2]["name"]
    /\ \E id \in DOMAIN tags : tags[id].user # res.user

====
